---- MODULE Spec2Model ----
(***************************************************************************)
(* RapidPoseLabels: the keypoint solver stage (src/process.py, class Pose) *)
(* and the annotation generator (src/src/generate.py, classes              *)
(* DatasetWriter and Annotations, and the main routine).                   *)
(*                                                                         *)
(* Conventions.  Python lists and numpy arrays are TLA+ sequences, so a    *)
(* Python index i is position i+1 here.  numpy floats are exact rationals  *)
(* <<n, d>> (d > 0, lowest terms) wherever the code divides; rotation      *)
(* matrices and rigid transforms are integer matrices, which is exact for  *)
(* the axis quaternions the inputs are drawn from.                         *)
(***************************************************************************)
EXTENDS Integers, Sequences, FiniteSets, TLC

VARIABLES
    \* ---- Pose (src/process.py) ----
    scale,            \* Pose.scale
    scene_imgs,       \* Pose.scene_imgs: per scene [dep, pts]
    scene_cams,       \* Pose.scene_cams: per scene [tx,ty,tz,qx,qy,qz,qw]
    select_vec,       \* Pose.select_vec
    pts_in_3d,        \* Pose.pts_in_3d, shape (S, 3, K)
    scene_kpts,       \* Pose.scene_kpts, shape (S, 3, K)
    saved,            \* archives written by np.savez: file name -> arrays
    res,              \* the OptimizeResult returned by optimize.predict
    compute_out,      \* what compute() derived from res.x on success
    visualized,       \* arguments of the visualize_object calls made
    compute_ret,      \* value compute() returned
    pose_pc,          \* position of the Pose pipeline
    \* ---- Annotations / DatasetWriter (src/src/generate.py) ----
    input_array,      \* Annotations.input_array (loaded archive)
    visualize,        \* Annotations.visualize
    num_scenes,       \* Annotations.num_scenes
    num_keypts,       \* Annotations.num_keypts
    list_of_scene_dirs, \* Annotations.list_of_scene_dirs
    dataset,          \* the dataset on disk: scene dir -> [n_img, n_pose]
    object_model,     \* Annotations.object_model
    scene_tfs,        \* Annotations.scene_tfs
    split,            \* locals out_ts, out_qs of process_input
    arrays,           \* heap of image arrays: id -> content
    samples,          \* list returned by generate_labels
    shown,            \* number of cv2.imshow calls
    disk,             \* output files: name -> [content, writes]
    counter,          \* loop counter of the main routine
    ann_pc,           \* position of the main routine
    \* ---- project3Dto2D applied to a given set of projected keypoints ----
    box_in,           \* the projected keypoints
    box_out           \* the label returned

poseVars == <<scale, scene_imgs, scene_cams, select_vec, pts_in_3d, scene_kpts,
              saved, res, compute_out, visualized, compute_ret, pose_pc>>
annVars  == <<input_array, visualize, num_scenes, num_keypts, list_of_scene_dirs,
              dataset, object_model, scene_tfs, split, arrays, samples, shown,
              disk, counter, ann_pc>>
boxVars  == <<box_in, box_out>>
vars     == <<poseVars, annVars, boxVars>>

\* ------------------------------------------------------------------ bounds
MaxScenes == 2
MaxKeypts == 2
MaxPts    == 3
MaxLines  == 11

\* A name not (yet) bound to a value: an attribute not assigned, no value returned.
Unset == [unset |-> TRUE]

\* --------------------------------------------------------------- rationals
Abs(a) == IF a < 0 THEN -a ELSE a

RECURSIVE Gcd(_, _)
Gcd(a, b) == IF b = 0 THEN a ELSE Gcd(b, a % b)

\* n/d in lowest terms with a positive denominator (d # 0).
Rat(n, d) ==
    LET g == Gcd(Abs(n), Abs(d))
        s == IF d < 0 THEN -1 ELSE 1
    IN  <<(s * n) \div g, (s * d) \div g>>

RInt(a)      == <<a, 1>>
RAdd(p, q)   == Rat(p[1] * q[2] + q[1] * p[2], p[2] * q[2])
RSub(p, q)   == Rat(p[1] * q[2] - q[1] * p[2], p[2] * q[2])
RMul(p, q)   == Rat(p[1] * q[1], p[2] * q[2])
RDiv(p, q)   == Rat(p[1] * q[2], p[2] * q[1])
RLt(p, q)    == p[1] * q[2] < q[1] * p[2]
RGe(p, q)    == ~RLt(p, q)
RMax(p, q)   == IF RLt(p, q) THEN q ELSE p
RMin(p, q)   == IF RLt(q, p) THEN q ELSE p
\* Python's int(): truncation toward zero.
RTrunc(p)    == IF p[1] >= 0 THEN p[1] \div p[2] ELSE -((-p[1]) \div p[2])

RECURSIVE RSum(_)
RSum(s) == IF s = <<>> THEN RInt(0) ELSE RAdd(s[1], RSum(Tail(s)))

RECURSIVE RMaxSeq(_)
RMaxSeq(s) == IF Len(s) = 1 THEN s[1] ELSE RMax(s[1], RMaxSeq(Tail(s)))

RECURSIVE RMinSeq(_)
RMinSeq(s) == IF Len(s) = 1 THEN s[1] ELSE RMin(s[1], RMinSeq(Tail(s)))

\* ------------------------------------------------- rotations and transforms
Eye(n) == [r \in 1..n |-> [c \in 1..n |-> IF r = c THEN 1 ELSE 0]]

\* transforms3d.quaternions.quat2mat for q = (w, x, y, z).  The library
\* returns the identity for a (near) zero quaternion and otherwise scales by
\* s = 2/Nq, so the quaternion need not be a unit one.  2ab/Nq is an integer
\* for every quaternion with a single non-zero component.
Quat2Mat(q) ==
    LET w == q[1]  x == q[2]  y == q[3]  z == q[4]
        Nq == w * w + x * x + y * y + z * z
        P(a, b) == (2 * a * b) \div Nq
    IN  IF Nq = 0 THEN Eye(3)
        ELSE << << 1 - (P(y, y) + P(z, z)), P(x, y) - P(w, z), P(x, z) + P(w, y) >>,
                << P(x, y) + P(w, z), 1 - (P(x, x) + P(z, z)), P(y, z) - P(w, x) >>,
                << P(x, z) - P(w, y), P(y, z) + P(w, x), 1 - (P(x, x) + P(y, y)) >> >>

\* transforms3d.affines.compose(T, R, Z) with Z = ones(3): [R T; 0 0 0 1].
Compose(t, R) ==
    [r \in 1..4 |-> [c \in 1..4 |->
        IF r <= 3 /\ c <= 3 THEN R[r][c]
        ELSE IF r <= 3 THEN t[r]
        ELSE IF c = 4 THEN 1 ELSE 0]]

MatMul(A, B) ==
    [r \in 1..Len(A) |-> [c \in 1..Len(B[1]) |->
        LET term[k \in 0..Len(B)] ==
                IF k = 0 THEN 0 ELSE term[k - 1] + A[r][k] * B[k][c]
        IN  term[Len(B)]]]

\* np.linalg.inv of a rigid transform [R t; 0 1]: [R^T  -R^T t; 0 1].
InvRigid(T) ==
    LET Rt == [r \in 1..3 |-> [c \in 1..3 |-> T[c][r]]]
        nt == [r \in 1..3 |-> -(Rt[r][1] * T[1][4] + Rt[r][2] * T[2][4] + Rt[r][3] * T[3][4])]
    IN  Compose(nt, Rt)

\* ------------------------------------------------------------ array helpers
\* Python index i into a dimension of length n (negative indices wrap).
PyIndex(i, n) == IF i < 0 THEN i + n ELSE i

\* v[a:b] for 0 <= a, with b clipped to the length.
Slice(v, a, b) == SubSeq(v, a + 1, IF b < Len(v) THEN b ELSE Len(v))

\* v.reshape((rows, cols)), row-major; numpy raises unless the sizes agree.
Reshape2(v, rows, cols) ==
    [r \in 1..rows |-> [c \in 1..cols |-> v[(r - 1) * cols + c]]]

\* v.reshape((n, 1, cols)), row-major.
Reshape3(v, n, cols) ==
    [k \in 1..n |-> << [c \in 1..cols |-> v[(k - 1) * cols + c]] >>]

RECURSIVE Flatten(_)
Flatten(ss) == IF ss = <<>> THEN <<>> ELSE ss[1] \o Flatten(Tail(ss))

\* ---------------------------------------------------------------- fixtures
\* camera.txt: fx fy cx cy.
CameraIntrinsics == <<525, 525, 320, 240>>

\* Depth image (rows of pixels) of the reference frame of scene s: a zero
\* and a positive depth in odd scenes, a negative and a zero depth (at the
\* last pixel, which the sentinel indexes) in even ones.
SceneDepth(s) == IF s % 2 = 1 THEN << <<0, 2>> >> ELSE << <<-2, 0>> >>

\* The "not picked" sentinel of a keypoint slot, and the picks of an image.
Sentinel == <<-1, -1>>
Picks(dep) == {Sentinel} \cup
              { <<u, v>> : u \in 0..(Len(dep[1]) - 1), v \in 0..(Len(dep) - 1) }

\* Depth scale factors given to the Pose constructor.
Scales == {1000}

\* Camera pose of scene s when its keypoints were picked.
SceneCam(s) == IF s % 2 = 1 THEN <<0, 0, 0, 0, 0, 0, 1>> ELSE <<s, 0, 1, 0, 0, 2, 0>>

\* Solved vectors: [t_1..t_{S-1}] || [q_1..q_{S-1}] || [model], one per pattern p.
\* The quaternions have a single non-zero component and need not be unit ones.
Patterns == 1..4
QuatList == << <<1, 0, 0, 0>>, <<0, 0, 0, 2>>, <<0, 3, 0, 0>>, <<0, 0, 0, 0>> >>
ResVector(S, K, p) ==
    Flatten([i \in 1..(S - 1) |-> <<10 * i + p, 10 * i + p + 1, 10 * i + p + 2>>])
    \o Flatten([i \in 1..(S - 1) |-> QuatList[((i + p) % 4) + 1]])
    \o Flatten([k \in 1..K |-> <<(k - 1) * (3 - 2 * p), 2 - k, k + p>>])
ResVectors(S, K) == { ResVector(S, K, p) : p \in Patterns }

\* ===================================================== Pose (src/process.py)
\* dep[r, c] of a 2-D numpy array.
DepthAt(dep, r, c) == dep[PyIndex(r, Len(dep)) + 1][PyIndex(c, Len(dep[1])) + 1]

\* One slot of convert_2Dto3D: the 3D point and the validity flag.
InvalidSlot == [pt3d |-> <<RInt(0), RInt(0), RInt(0)>>, flag |-> 0]

\* ConvertSlot requiring a positive depth instead of a non-zero one.
ConvertSlotPositiveDepth(pt, dep, sc, cam) ==
    LET pt3d_z == RMul(RInt(DepthAt(dep, pt[2], pt[1])), Rat(1, sc))
    IN  IF pt # Sentinel /\ RLt(RInt(0), pt3d_z)
        THEN [pt3d |-> << RMul(RInt(pt[1] - cam[3]), RDiv(pt3d_z, RInt(cam[1]))),
                          RMul(RInt(pt[2] - cam[4]), RDiv(pt3d_z, RInt(cam[2]))),
                          pt3d_z >>,
              flag |-> 1]
        ELSE InvalidSlot

ConvertSlot(pt, dep, sc, cam) ==
    LET pt3d_z == RMul(RInt(DepthAt(dep, pt[2], pt[1])), Rat(1, sc))
    IN  IF pt # Sentinel /\ pt3d_z # RInt(0)
        THEN [pt3d |-> << RMul(RInt(pt[1] - cam[3]), RDiv(pt3d_z, RInt(cam[1]))),
                          RMul(RInt(pt[2] - cam[4]), RDiv(pt3d_z, RInt(cam[2]))),
                          pt3d_z >>,
              flag |-> 1]
        ELSE InvalidSlot

\* The loops of convert_2Dto3D: acc.vec is select_vec, acc.pts is pts_3d.
RECURSIVE ConvertPts(_, _, _, _, _)
ConvertPts(pts, dep, sc, cam, acc) ==
    IF pts = <<>> THEN acc
    ELSE LET slot == ConvertSlot(pts[1], dep, sc, cam)
         IN  ConvertPts(Tail(pts), dep, sc, cam,
                        [vec |-> Append(acc.vec, slot.flag), w |-> Append(acc.w, slot.pt3d)])

RECURSIVE ConvertScenes(_, _, _, _)
ConvertScenes(imgs, sc, cam, acc) ==
    IF imgs = <<>> THEN acc
    ELSE LET one == ConvertPts(imgs[1].pts, imgs[1].dep, sc, cam, [vec |-> acc.vec, w |-> <<>>])
         IN  ConvertScenes(Tail(imgs), sc, cam,
                           [vec |-> one.vec, pts |-> Append(acc.pts, one.w)])

\* np.asarray(pts_3d).transpose(0, 2, 1): (S, K, 3) -> (S, 3, K).
Transpose021(a) ==
    [s \in 1..Len(a) |-> [c \in 1..3 |-> [k \in 1..Len(a[s]) |-> a[s][k][c]]]]

Convert2Dto3D ==
    /\ pose_pc = "loaded"
    /\ LET out == ConvertScenes(scene_imgs, scale, CameraIntrinsics, [vec |-> <<>>, pts |-> <<>>])
       IN  /\ select_vec' = out.vec
           /\ pts_in_3d' = Transpose021(out.pts)
    /\ pose_pc' = "converted"
    /\ UNCHANGED <<scale, scene_imgs, scene_cams, scene_kpts, saved, res, compute_out,
                   visualized, compute_ret>>
    /\ UNCHANGED <<annVars, boxVars>>

\* One scene of transform_points: quat2mat(pose_q).dot(scene_pts) + pose_t.
TransformScene(scene_pts, pose) ==
    LET pose_t == SubSeq(pose, 1, 3)
        pose_q == <<pose[7]>> \o SubSeq(pose, 4, 6)
        R == Quat2Mat(pose_q)
    IN  [c \in 1..3 |-> [k \in 1..Len(scene_pts[1]) |->
            RAdd(RSum([j \in 1..3 |-> RMul(RInt(R[c][j]), scene_pts[j][k])]),
                 RInt(pose_t[c]))]]

Min2(a, b) == IF a < b THEN a ELSE b

TransformPoints ==
    /\ pose_pc = "converted"
    /\ scene_kpts' = [s \in 1..Min2(Len(pts_in_3d), Len(scene_cams)) |->
                         TransformScene(pts_in_3d[s], scene_cams[s])]
    /\ pose_pc' = "transformed"
    /\ UNCHANGED <<scale, scene_imgs, scene_cams, select_vec, pts_in_3d, saved, res,
                   compute_out, visualized, compute_ret>>
    /\ UNCHANGED <<annVars, boxVars>>

\* len(np.nonzero(select_vec)[0])
RECURSIVE CountNonZero(_)
CountNonZero(v) ==
    IF v = <<>> THEN 0 ELSE (IF v[1] # 0 THEN 1 ELSE 0) + CountNonZero(Tail(v))

\* BlockCol with the column block taken at the flat index instead of 3 * index.
BlockColAtIndex(idx) == idx

\* First column of the block "selection_matrix[row:row+3, (idx*3):(idx*3)+3]"
\* that compute assigns np.eye(3) to for a valid flag at flat index idx.
BlockCol(idx) == idx * 3

\* The loop "for idx, flag in enumerate(select_vec)" of compute, from idx on:
\* the first columns of the blocks assigned, in order.  row starts at 0 and
\* advances by 3 after each block, so the i-th block (from 0) is at row 3i.
RECURSIVE BlockCols(_, _)
BlockCols(vec, idx) ==
    IF idx >= Len(vec) THEN <<>>
    ELSE IF vec[idx + 1] # 0
         THEN <<BlockCol(idx)>> \o BlockCols(vec, idx + 1)
         ELSE BlockCols(vec, idx + 1)

\* Entry (r, c) (Python indices) of the zero matrix after those assignments:
\* row r lies in block r div 3 alone, which holds np.eye(3).
Entry(cols, r, c) ==
    LET col == cols[(r \div 3) + 1]
    IN  IF c \in col..(col + 2) /\ c - col = r % 3 THEN 1 ELSE 0

\* selection_matrix of compute; the shape is kept beside the data, as numpy
\* does, so that a matrix with no rows still has its column count.
SelectionMatrix(vec) ==
    LET total_kpt_count == Len(vec)
        found_kpt_count == CountNonZero(vec)
        cols == BlockCols(vec, 0)
    IN  [shape |-> <<found_kpt_count * 3, total_kpt_count * 3>>,
         a |-> [r \in 1..(found_kpt_count * 3) |-> [c \in 1..(total_kpt_count * 3) |->
                   Entry(cols, r - 1, c - 1)]]]

\* np.savez("saved_gui_output", kpts=..., sm=...): the arrays of the archive.
SavedArchive(kpts, sm) == [kpts |-> kpts, sm |-> sm]

\* "output from optimization": the split of res.x made when res.success.
ComputeSplit(output_vec, S, K) ==
    LET len_ts == (S - 1) * 3
        len_qs == (S - 1) * 4
        out_ts == Reshape2(Slice(output_vec, 0, len_ts), S - 1, 3)
        out_qs == Reshape2(Slice(output_vec, len_ts, len_ts + len_qs), S - 1, 4)
        out_Ps == Reshape3(Slice(output_vec, len_ts + len_qs, Len(output_vec)), K, 3)
    IN  [out_ts |-> out_ts, out_qs |-> out_qs,
         \* out_Ps.transpose(): (K, 1, 3) -> (3, 1, K)
         object_model |-> [c \in 1..3 |-> << [k \in 1..K |-> out_Ps[k][1][c]] >>]]

\* What optimize.predict may return for S scenes and K keypoints: success or
\* failure, with a vector of 7(S-1)+3K entries.
PredictOutcomes(S, K) == [success : BOOLEAN, x : {ResVector(S, K, 1)}]

\* compute(), with r the OptimizeResult that optimize.predict returns.
ComputeWith(r) ==
    /\ pose_pc = "transformed"
    /\ LET selection_matrix == SelectionMatrix(select_vec)
           S == Len(scene_kpts)
           K == Len(scene_kpts[1][1])
       IN  /\ saved' = [name |-> "saved_gui_output.npz",
                        arrays |-> SavedArchive(scene_kpts, selection_matrix)]
           /\ res' = r
           /\ IF r.success
              THEN LET out == ComputeSplit(r.x, S, K)
                   IN  /\ compute_out' = out
                       /\ visualized' = Append(visualized, out.object_model)
                       /\ compute_ret' = [value |-> r.success]
                       /\ pose_pc' = "returned"
              ELSE \* object_model was never bound: line 112 raises UnboundLocalError
                   /\ compute_out' = Unset
                   /\ visualized' = visualized
                   /\ compute_ret' = Unset
                   /\ pose_pc' = "raised"
    /\ UNCHANGED <<scale, scene_imgs, scene_cams, select_vec, pts_in_3d, scene_kpts>>
    /\ UNCHANGED <<annVars, boxVars>>

Compute ==
    /\ pose_pc = "transformed"
    /\ \E r \in PredictOutcomes(Len(scene_kpts), Len(scene_kpts[1][1])) : ComputeWith(r)

\* A Pose object whose scenes have been loaded (S scenes of K slots each).
SceneImgs(s, K) == [dep : {SceneDepth(s)}, pts : [1..K -> Picks(SceneDepth(s))]]

PoseLoaded(S, K) ==
    /\ scale \in Scales
    /\ scene_imgs \in [1..S -> UNION {SceneImgs(s, K) : s \in 1..S}]
    /\ \A s \in 1..S : scene_imgs[s] \in SceneImgs(s, K)
    /\ scene_cams = [s \in 1..S |-> SceneCam(s)]
    /\ select_vec = <<>>
    /\ pts_in_3d = <<>>
    /\ scene_kpts = <<>>
    /\ saved = Unset
    /\ res = Unset
    /\ compute_out = Unset
    /\ visualized = <<>>
    /\ compute_ret = Unset
    /\ pose_pc = "loaded"

\* Values of the variables a specification does not use.
PoseIdle ==
    /\ scale = 0 /\ scene_imgs = <<>> /\ scene_cams = <<>> /\ select_vec = <<>>
    /\ pts_in_3d = <<>> /\ scene_kpts = <<>> /\ saved = Unset /\ res = Unset
    /\ compute_out = Unset /\ visualized = <<>> /\ compute_ret = Unset /\ pose_pc = "idle"

AnnIdle ==
    /\ input_array = Unset /\ visualize = FALSE /\ num_scenes = 0 /\ num_keypts = 0
    /\ list_of_scene_dirs = <<>> /\ dataset = <<>> /\ object_model = <<>>
    /\ scene_tfs = <<>> /\ split = Unset /\ arrays = <<>> /\ samples = <<>>
    /\ shown = 0 /\ disk = [dirs |-> {}, files |-> <<>>] /\ counter = 0 /\ ann_pc = "idle"

BoxIdle == box_in = <<>> /\ box_out = Unset

InitPose ==
    /\ \E S \in 1..MaxScenes, K \in 1..MaxKeypts : PoseLoaded(S, K)
    /\ AnnIdle
    /\ BoxIdle

NextPose == Convert2Dto3D \/ TransformPoints \/ Compute

SpecPose == InitPose /\ [][NextPose]_vars

\* ------------------------------------------------------ claims on Pose
\* Flat indices (Python, ascending) of the valid entries of a validity vector.
ValidIdx(vec) == SelectSeq([i \in 1..Len(vec) |-> i - 1], LAMBDA i : vec[i + 1] # 0)

\* M.dot(d) for a dense vector d.
MatVec(M, d) ==
    [r \in 1..M.shape[1] |->
        LET term[c \in 0..M.shape[2]] ==
                IF c = 0 THEN 0 ELSE term[c - 1] + M.a[r][c] * d[c]
        IN  term[M.shape[2]]]

\* Dense vectors of n entries, each of pairwise distinct entries: with one 1
\* per row and zeros elsewhere, the product names the column of each row.
DenseVectors(n) ==
    { [i \in 1..n |-> i], [i \in 1..n |-> 5 - i * i] }

\* The valid 3-vectors of d, in ascending order of flat index.
ValidVectors(vec, d) ==
    LET idx == ValidIdx(vec)
    IN  [p \in 1..(3 * Len(idx)) |-> d[3 * idx[((p - 1) \div 3) + 1] + ((p - 1) % 3) + 1]]

\* C1: the selection matrix built by compute from a validity vector of length
\* N with V non-zero entries has shape (3V, 3N), holds exactly one 1 in each
\* row and at most one 1 in each column, and maps every dense vector of N
\* 3-vectors to the 3-vectors at the valid flat indices in ascending order.
C1_SelectionMatrix ==
    saved # Unset =>
        LET M == saved.arrays.sm
            N == Len(select_vec)
            V == CountNonZero(select_vec)
        IN  /\ M.shape = <<3 * V, 3 * N>>
            /\ \A r \in 1..(3 * V) :
                  /\ Cardinality({c \in 1..(3 * N) : M.a[r][c] = 1}) = 1
                  /\ \A c \in 1..(3 * N) : M.a[r][c] \in {0, 1}
            /\ \A c \in 1..(3 * N) :
                  Cardinality({r \in 1..(3 * V) : M.a[r][c] = 1}) <= 1
            /\ \A d \in DenseVectors(3 * N) : MatVec(M, d) = ValidVectors(select_vec, d)

\* A matrix was built from a vector with an invalid entry before a valid one
\* and at least two valid entries.
C1_Witness ==
    /\ saved # Unset
    /\ CountNonZero(select_vec) >= 2
    /\ \E i \in 1..(Len(select_vec) - 1) : select_vec[i] = 0 /\ select_vec[i + 1] = 1

\* C2: after convert_2Dto3D over S scenes of K slots, select_vec has length
\* S*K and its entry at flat index s*K+k is 1 iff slot k of scene s is not the
\* sentinel and the depth at the picked pixel is not zero (a negative depth is
\* valid); otherwise it is 0 and the stored 3D point is (0,0,0).
C2_SelectVec ==
    pose_pc \in {"converted", "transformed", "returned", "raised"} =>
        LET S == Len(scene_imgs)
            K == Len(scene_imgs[1].pts)
        IN  /\ Len(select_vec) = S * K
            /\ \A s \in 0..(S - 1), k \in 0..(K - 1) :
                  LET pt == scene_imgs[s + 1].pts[k + 1]
                      depth == DepthAt(scene_imgs[s + 1].dep, pt[2], pt[1])
                      flag == select_vec[s * K + k + 1]
                  IN  /\ flag \in {0, 1}
                      /\ flag = 1 <=> (pt # Sentinel /\ depth # 0)
                      /\ flag = 0 =>
                            \A c \in 1..3 : pts_in_3d[s + 1][c][k + 1] = RInt(0)

\* Conversion has run on scenes holding a valid slot of negative depth, a
\* picked slot of zero depth and an unpicked slot.
C2_Witness ==
    /\ pose_pc = "converted"
    /\ \E s \in 1..Len(scene_imgs), k \in 1..Len(scene_imgs[1].pts) :
          LET pt == scene_imgs[s].pts[k]
          IN  /\ pt # Sentinel
              /\ DepthAt(scene_imgs[s].dep, pt[2], pt[1]) < 0
              /\ select_vec[(s - 1) * Len(scene_imgs[1].pts) + k] = 1
    /\ \E s \in 1..Len(scene_imgs), k \in 1..Len(scene_imgs[1].pts) :
          LET pt == scene_imgs[s].pts[k]
          IN  pt # Sentinel /\ DepthAt(scene_imgs[s].dep, pt[2], pt[1]) = 0
    /\ \E s \in 1..Len(scene_imgs), k \in 1..Len(scene_imgs[1].pts) :
          scene_imgs[s].pts[k] = Sentinel

\* C3: when the minimizer reports failure, compute returns the boolean False
\* to its caller and visualizes nothing; it does not end by raising.
C3_FailureReturnsFalse ==
    (res # Unset /\ ~res.success) =>
        /\ pose_pc = "returned"
        /\ compute_ret = [value |-> FALSE]
        /\ visualized = <<>>

\* Array names the Annotation Generator reads from its input archive.
GeneratorReads == {"ref", "res"}

\* C6: the archive persisted by compute holds the arrays ref, sm and res, so
\* every array name the Annotation Generator reads is one compute has written.
C6_ArchiveNames ==
    saved # Unset =>
        /\ {"ref", "sm", "res"} \subseteq DOMAIN saved.arrays
        /\ GeneratorReads \subseteq DOMAIN saved.arrays

\* ============================ Annotations, DatasetWriter (src/src/generate.py)
Width     == 640
Height    == 480
Ratio     == 10
BboxScale == Rat(3, 2)

\* cv2.projectPoints(input_points, rvec, tvec, cam_mat, None) for the pose
\* [R t; 0 1]: rotate and translate, divide by z, scale and offset by the
\* intrinsics; no distortion.  One (u, v) per point.
ProjectPoints(input_points, input_pose, cam) ==
    [k \in 1..Len(input_points) |->
        LET P == input_points[k]
            X == [r \in 1..3 |-> input_pose[r][1] * P[1] + input_pose[r][2] * P[2]
                                 + input_pose[r][3] * P[3] + input_pose[r][4]]
        IN  << Rat(cam[1] * X[1] + cam[3] * X[3], X[3]),
               Rat(cam[2] * X[2] + cam[4] * X[3], X[3]) >>]

\* The min-max box of project3Dto2D after its four "if" statements.
ClampedBox(keypts) ==
    LET xs == [i \in 1..Len(keypts) |-> keypts[i][1]]
        ys == [i \in 1..Len(keypts) |-> keypts[i][2]]
        xmin == RMinSeq(xs)  ymin == RMinSeq(ys)
        xmax == RMaxSeq(xs)  ymax == RMaxSeq(ys)
    IN  [xmin |-> IF RLt(xmin, RInt(0)) THEN RInt(0) ELSE xmin,
         ymin |-> IF RLt(ymin, RInt(0)) THEN RInt(0) ELSE ymin,
         xmax |-> IF RGe(xmax, RInt(Width - 1)) THEN RInt(Width - 1) ELSE xmax,
         ymax |-> IF RGe(ymax, RInt(Height - 1)) THEN RInt(Height - 1) ELSE ymax]

\* keypts.mean(0)
Mean(keypts) ==
    << RDiv(RSum([i \in 1..Len(keypts) |-> keypts[i][1]]), RInt(Len(keypts))),
       RDiv(RSum([i \in 1..Len(keypts) |-> keypts[i][2]]), RInt(Len(keypts))) >>

\* BoxCenter as if line 147 did not reassign bbox_cn: the mean of line 140.
BoxCenterMean(keypts, b) == Mean(keypts)

\* bbox_cn as returned: assigned the mean (line 140), then reassigned the
\* centre of the clamped box b (line 147).
BoxCenter(keypts, b) ==
    << RDiv(RAdd(b.xmax, b.xmin), RInt(2)), RDiv(RAdd(b.ymax, b.ymin), RInt(2)) >>

\* The label computed from the projected keypoints (lines 139-149), with the
\* clamped box it was computed from.
BoxLabel(keypts) ==
    LET b == ClampedBox(keypts)
        bbox_sd == RMul(RMax(RSub(b.xmax, b.xmin), RSub(b.ymax, b.ymin)), BboxScale)
    IN  [keypts |-> keypts,
         center |-> BoxCenter(keypts, b),
         scale  |-> RDiv(bbox_sd, RInt(200)),
         box    |-> b]

\* The tuple project3Dto2D returns.
Label(l) == [keypts |-> l.keypts, center |-> l.center, scale |-> l.scale]

Project3Dto2D(input_points, input_pose) ==
    Label(BoxLabel(ProjectPoints(input_points, input_pose, CameraIntrinsics)))

\* ProcessSplit with the model read from where the translations and a
\* 3-parameter rotation per scene would end.
ProcessSplitSix(v, S, K) ==
    [out_ts |-> Reshape2(Slice(v, 0, (S - 1) * 3), S - 1, 3),
     out_qs |-> Reshape2(Slice(v, (S - 1) * 3, (S - 1) * 7), S - 1, 4),
     out_Ps |-> Reshape2(Slice(v, (S - 1) * 6, (S - 1) * 6 + 3 * K), K, 3)]

\* The slices of input_array['res'] taken by process_input.
ProcessSplit(v, S, K) ==
    [out_ts |-> Reshape2(Slice(v, 0, (S - 1) * 3), S - 1, 3),
     out_qs |-> Reshape2(Slice(v, (S - 1) * 3, (S - 1) * 7), S - 1, 4),
     out_Ps |-> Reshape2(Slice(v, (S - 1) * 7, Len(v)), K, 3)]

\* process_input(False).  With a single scene out_Ts is np.asarray([]), of
\* one dimension, and np.concatenate with the (1, 4, 4) identity raises
\* ValueError after object_model was assigned.
ProcessInput ==
    /\ ann_pc = "constructed"
    /\ LET sp == ProcessSplit(input_array.res, num_scenes, num_keypts)
           out_Ts == [i \in 1..(num_scenes - 1) |->
                         Compose(sp.out_ts[i], Quat2Mat(sp.out_qs[i]))]
       IN  /\ split' = sp
           /\ object_model' = sp.out_Ps
           /\ IF out_Ts = <<>>
              THEN scene_tfs' = scene_tfs /\ ann_pc' = "raised"
              ELSE scene_tfs' = <<Eye(4)>> \o out_Ts /\ ann_pc' = "processed"
    /\ UNCHANGED <<input_array, visualize, num_scenes, num_keypts, list_of_scene_dirs,
                   dataset, arrays, samples, shown, disk, counter>>
    /\ UNCHANGED <<poseVars, boxVars>>

\* Line i (from 0) of camera.poses of scene directory d, without its timestamp.
CamPoseLine(d, i) ==
    IF (d + i) % 2 = 0 THEN <<i % 3, d, 0, 0, 0, 0, 1>> ELSE <<i % 3, d, 0, 0, 0, 2, 0>>

\* Fourth token of line i (from 0) of associations.txt of scene directory d.
FramePath(d, i) == <<d, i>>

\* ZipLen taking the length of the association list alone.
ZipLenImages(n_img, n_pose) == n_img

\* len(list(zip(img_name_list, cam_pose_list)))
ZipLen(n_img, n_pose) == Min2(n_img, n_pose)

\* Positions kept by "[::ratio]" of a list of n elements, from pos on.
RECURSIVE Stride(_, _, _)
Stride(pos, n, r) == IF pos >= n THEN <<>> ELSE <<pos>> \o Stride(pos + r, n, r)

\* cv2.resize(cv2.imread(path), (width, height)): a new array.
ReadResized(path) == [path |-> path, size |-> <<Width, Height>>, drawn |-> <<>>]

\* What visualize_sample draws into the array it is given.
Drawing(label) ==
    LET bbox_sd == RMul(label.scale, RInt(200))
        half == RDiv(bbox_sd, RInt(2))
    IN  [k \in 1..Len(label.keypts) |->
            [op |-> "circle", at |-> <<RTrunc(label.keypts[k][1]), RTrunc(label.keypts[k][2])>>]]
        \o << [op |-> "rectangle",
               at |-> << RTrunc(RSub(label.center[1], half)), RTrunc(RSub(label.center[2], half)),
                         RTrunc(RAdd(label.center[1], half)), RTrunc(RAdd(label.center[2], half)) >>] >>

\* visualize_sample((input_rgb_image, label)): cv2.circle and cv2.rectangle
\* draw in place into the array passed, which is the array of the sample.
VisualizeSample(img, label) == [img EXCEPT !.drawn = img.drawn \o Drawing(label)]

\* The iterations of generate_labels for one scene directory, appended to acc
\* = [arrays, samples, shown].
RECURSIVE LabelFrames(_, _, _, _, _)
LabelFrames(d, sce_T, positions, vis, acc) ==
    IF positions = <<>> THEN acc
    ELSE LET i == positions[1]
             cam_pose == CamPoseLine(d, i)
             cam_T == Compose(SubSeq(cam_pose, 1, 3),
                              Quat2Mat(<<cam_pose[7]>> \o SubSeq(cam_pose, 4, 6)))
             label == Project3Dto2D(object_model, MatMul(InvRigid(cam_T), sce_T))
             id == Len(acc.arrays) + 1
             img == ReadResized(FramePath(d, i))
         IN  LabelFrames(d, sce_T, Tail(positions), vis,
                 [arrays  |-> Append(acc.arrays, IF vis THEN VisualizeSample(img, label) ELSE img),
                  samples |-> Append(acc.samples, [img |-> id, label |-> label]),
                  shown   |-> IF vis THEN acc.shown + 1 ELSE acc.shown])

\* The loop of generate_labels over zip(list_of_scene_dirs, scene_tfs), from
\* the n-th pair on.
RECURSIVE LabelScenes(_, _)
LabelScenes(n, acc) ==
    IF n > Min2(Len(list_of_scene_dirs), Len(scene_tfs)) THEN acc
    ELSE LET d == list_of_scene_dirs[n]
             zipped == Stride(0, ZipLen(dataset[d].n_img, dataset[d].n_pose), Ratio)
         IN  LabelScenes(n + 1, LabelFrames(d, scene_tfs[n], zipped, visualize, acc))

\* samples = lab.generate_labels()
GenerateLabels ==
    /\ ann_pc = "processed"
    /\ LET out == LabelScenes(1, [arrays |-> arrays, samples |-> <<>>, shown |-> shown])
       IN  /\ arrays' = out.arrays
           /\ samples' = out.samples
           /\ shown' = out.shown
    /\ ann_pc' = "generated"
    /\ UNCHANGED <<input_array, visualize, num_scenes, num_keypts, list_of_scene_dirs,
                   dataset, object_model, scene_tfs, split, disk, counter>>
    /\ UNCHANGED <<poseVars, boxVars>>

\* repr(index) of a non-negative int: its decimal digits.
RECURSIVE Repr(_)
Repr(n) == IF n < 10 THEN <<n>> ELSE Repr(n \div 10) \o <<n % 10>>

\* str.zfill(width): zeros on the left up to width, never a truncation.
RECURSIVE Zfill(_, _)
Zfill(ds, width) == IF Len(ds) >= width THEN ds ELSE Zfill(<<0>> \o ds, width)

FileName(dir, prefix, index, ext) == <<dir, prefix, Zfill(Repr(index), 5), ext>>

\* The index the main routine passes to writeToDisk for the sample at
\* position cnt of enumerate(samples).
WriteIndex(cnt) == cnt

\* The files writeToDisk(sample, index) writes, with their contents.
SampleFiles(sample, index) ==
    LET kpt_label == sample.label.keypts
        cen_label == sample.label.center
        sca_label == sample.label.scale
        rgb_image == arrays[sample.img]
        width  == rgb_image.size[1]
        height == rgb_image.size[2]
    IN  { << FileName("bboxes", "frame_", index, ".txt"),
             << 0, RDiv(cen_label[1], RInt(width)), RDiv(cen_label[2], RInt(height)),
                RDiv(RMul(sca_label, RInt(200)), RInt(width)),
                RDiv(RMul(sca_label, RInt(200)), RInt(height)) >> >>,
          << FileName("center", "center_", index, ".txt"), cen_label >>,
          << FileName("scale", "scales_", index, ".txt"), <<sca_label>> >>,
          << FileName("label", "label_", index, ".txt"), kpt_label >>,
          << FileName("frames", "frame_", index, ".jpg"), rgb_image >> }

\* writer = DatasetWriter(opt.output): the sub-directories are created.
NewDatasetWriter ==
    /\ ann_pc = "generated"
    /\ disk' = [dirs |-> {"bboxes", "center", "scale", "label", "frames"}, files |-> <<>>]
    /\ counter' = 0
    /\ ann_pc' = "writing"
    /\ UNCHANGED <<input_array, visualize, num_scenes, num_keypts, list_of_scene_dirs,
                   dataset, object_model, scene_tfs, split, arrays, samples, shown>>
    /\ UNCHANGED <<poseVars, boxVars>>

\* One iteration of "for counter, sample in enumerate(samples)":
\* writer.writeToDisk(sample, counter).
WriteToDisk ==
    /\ ann_pc = "writing"
    /\ counter < Len(samples)
    /\ LET new == SampleFiles(samples[counter + 1], WriteIndex(counter))
           names == {f[1] : f \in new}
           old == DOMAIN disk.files
       IN  disk' = [disk EXCEPT !.files =
                      [n \in old \cup names |->
                          IF n \in names
                          THEN [content |-> (CHOOSE f \in new : f[1] = n)[2],
                                writes  |-> IF n \in old THEN disk.files[n].writes + 1 ELSE 1]
                          ELSE disk.files[n]]]
    /\ counter' = counter + 1
    /\ UNCHANGED <<input_array, visualize, num_scenes, num_keypts, list_of_scene_dirs,
                   dataset, object_model, scene_tfs, split, arrays, samples, shown, ann_pc>>
    /\ UNCHANGED <<poseVars, boxVars>>

\* The loop is exhausted: the total is printed and the program ends.
Finish ==
    /\ ann_pc = "writing"
    /\ counter = Len(samples)
    /\ ann_pc' = "done"
    /\ UNCHANGED <<input_array, visualize, num_scenes, num_keypts, list_of_scene_dirs,
                   dataset, object_model, scene_tfs, split, arrays, samples, shown,
                   disk, counter>>
    /\ UNCHANGED <<poseVars, boxVars>>

\* Numbers of lines of associations.txt and camera.poses of a scene.
LinePairs ==
    { [n_img |-> 0, n_pose |-> MaxLines], [n_img |-> 1, n_pose |-> 1],
      [n_img |-> MaxLines - 1, n_pose |-> MaxLines], [n_img |-> MaxLines, n_pose |-> MaxLines],
      [n_img |-> 2 * MaxLines, n_pose |-> 1] }

\* Annotations(dataset_path, input_arr_path, vis) for an archive holding a ref
\* array of shape (S, 3, K) and the solved vector x, over a dataset ds of
\* scene directories (named by their rank in sorted order).
AnnConstructed(S, K, x, vis, ds) ==
    /\ input_array = [ref |-> [shape |-> <<S, 3, K>>], res |-> x]
    /\ visualize = vis
    /\ num_scenes = input_array.ref.shape[1]
    /\ num_keypts = input_array.ref.shape[3]
    /\ dataset = ds
    /\ list_of_scene_dirs = SubSeq([d \in 1..Len(ds) |-> d], 1, Min2(num_scenes, Len(ds)))
    /\ object_model = <<>>
    /\ scene_tfs = <<>>
    /\ split = Unset
    /\ arrays = <<>>
    /\ samples = <<>>
    /\ shown = 0
    /\ disk = [dirs |-> {}, files |-> <<>>]
    /\ counter = 0
    /\ ann_pc = "constructed"

\* The main routine of generate.py, after lab = Annotations(...).  The dataset
\* holds one directory more than the archive has scenes.
Init ==
    /\ \E S \in 1..MaxScenes, K \in 1..MaxKeypts, vis \in BOOLEAN :
         \E x \in ResVectors(S, K), ds \in [1..S -> LinePairs] :
            AnnConstructed(S, K, x, vis, Append(ds, [n_img |-> 1, n_pose |-> 1]))
    /\ PoseIdle
    /\ BoxIdle

Next == ProcessInput \/ GenerateLabels \/ NewDatasetWriter \/ WriteToDisk \/ Finish

Spec == Init /\ [][Next]_vars

\* ---- project3Dto2D on given projected keypoints ----
\* Pixel coordinates left of / above the image, inside it, and right of / below it.
BoxPoints == { <<RInt(u), RInt(v)>> : u \in {-50, 320, 700}, v \in {-50, 240, 500} }

\* Lines 139-149 of project3Dto2D applied to the projected keypoints box_in.
BoxOfKeypoints ==
    /\ box_out = Unset
    /\ box_out' = BoxLabel(box_in)
    /\ UNCHANGED box_in
    /\ UNCHANGED <<poseVars, annVars>>

InitBox ==
    /\ \E n \in 1..MaxPts : box_in \in [1..n -> BoxPoints]
    /\ box_out = Unset
    /\ PoseIdle
    /\ AnnIdle

NextBox == BoxOfKeypoints

SpecBox == InitBox /\ [][NextBox]_vars

\* ---- both consumers of one solved vector ----
\* compute() when optimize.predict returns the vector the archive holds.
ComputeArchived ==
    /\ pose_pc = "transformed"
    /\ \E ok \in BOOLEAN : ComputeWith([success |-> ok, x |-> input_array.res])

\* A Pose object and an Annotations object for the same S scenes and K
\* keypoints; every slot was picked at the last pixel.
InitLayout ==
    \E S \in 1..MaxScenes, K \in 1..MaxKeypts :
        /\ PoseLoaded(S, K)
        /\ \A s \in 1..S, k \in 1..K : scene_imgs[s].pts[k] = <<1, 0>>
        /\ \E x \in ResVectors(S, K) :
              AnnConstructed(S, K, x, FALSE, [d \in 1..S |-> [n_img |-> 1, n_pose |-> 1]])
        /\ BoxIdle

NextLayout == Convert2Dto3D \/ TransformPoints \/ ComputeArchived \/ ProcessInput

SpecLayout == InitLayout /\ [][NextLayout]_vars

\* ------------------------------------------- claims on the annotation generator
\* C4: scene 0's transform is never a solver free parameter: the solved vector
\* carries translations and quaternions for scenes 1..S-1 only, and once
\* process_input has been called scene_tfs holds exactly S transforms, the
\* first of which is the 4x4 identity, for every scene count S >= 1.
C4_SceneZeroIdentity ==
    ann_pc \notin {"idle", "constructed"} =>
        /\ Len(split.out_ts) = num_scenes - 1
        /\ Len(split.out_qs) = num_scenes - 1
        /\ Len(scene_tfs) = num_scenes
        /\ scene_tfs[1] = Eye(4)

\* C5: for S scenes and K keypoints compute and process_input split the
\* solved vector, of length 7(S-1)+3K, at the same positions: element j of
\* t_i at 3(i-1)+j, element j of q_i at 3(S-1)+4(i-1)+j and coordinate c of
\* keypoint k at 7(S-1)+3(k-1)+c (positions counted from 1).
C5_SameLayout ==
    (pose_pc = "returned" /\ split # Unset) =>
        LET x == input_array.res
            S == num_scenes
            K == num_keypts
        IN  /\ res.x = x
            /\ Len(x) = 7 * (S - 1) + 3 * K
            /\ Len(compute_out.out_ts) = S - 1 /\ Len(split.out_ts) = S - 1
            /\ Len(compute_out.out_qs) = S - 1 /\ Len(split.out_qs) = S - 1
            /\ Len(compute_out.object_model[1][1]) = K /\ Len(split.out_Ps) = K
            /\ \A i \in 1..(S - 1), j \in 1..3 :
                  /\ compute_out.out_ts[i][j] = x[3 * (i - 1) + j]
                  /\ split.out_ts[i][j] = x[3 * (i - 1) + j]
            /\ \A i \in 1..(S - 1), j \in 1..4 :
                  /\ compute_out.out_qs[i][j] = x[3 * (S - 1) + 4 * (i - 1) + j]
                  /\ split.out_qs[i][j] = x[3 * (S - 1) + 4 * (i - 1) + j]
            /\ \A k \in 1..K, c \in 1..3 :
                  /\ compute_out.object_model[c][1][k] = x[7 * (S - 1) + 3 * (k - 1) + c]
                  /\ split.out_Ps[k][c] = x[7 * (S - 1) + 3 * (k - 1) + c]
                  /\ object_model[k][c] = x[7 * (S - 1) + 3 * (k - 1) + c]

\* Both consumers have split a vector for several scenes and keypoints.
C5_Witness ==
    /\ pose_pc = "returned"
    /\ split # Unset
    /\ num_scenes >= 2
    /\ num_keypts >= 2

\* C7: the box of project3Dto2D is clamped per axis to the image, so that
\* 0 <= xmin <= xmax <= width-1 and 0 <= ymin <= ymax <= height-1 and the
\* box width, box height and returned scale are never negative.
C7_BoxInsideImage ==
    box_out # Unset =>
        LET b == box_out.box
        IN  /\ RGe(b.xmin, RInt(0)) /\ RGe(b.xmax, b.xmin) /\ RGe(RInt(Width - 1), b.xmax)
            /\ RGe(b.ymin, RInt(0)) /\ RGe(b.ymax, b.ymin) /\ RGe(RInt(Height - 1), b.ymax)
            /\ RGe(box_out.scale, RInt(0))

ExpectedFrames ==
    Flatten([n \in 1..num_scenes |->
        LET lo == Min2(dataset[n].n_img, dataset[n].n_pose)
        IN  [j \in 1..((lo + Ratio - 1) \div Ratio) |-> <<n, (j - 1) * Ratio>>]])

\* C9: for each scene generate_labels emits exactly the frames at positions
\* 0, r, 2r, ... below min(n_img, n_pose), ceil(min(n_img, n_pose)/r) of them,
\* each labelled with the pose line of the same position, scene by scene in
\* ascending order (the list as returned); the main routine writes the i-th
\* sample under index i, so the N samples get the indices 0..N-1 and no file
\* is written twice.
C9_StrideAndIndices ==
    /\ ann_pc = "generated" =>
          LET exp == ExpectedFrames
          IN  /\ Len(samples) = Len(exp)
              /\ \A i \in 1..Len(samples) :
                    LET n == exp[i][1]
                        pos == exp[i][2]
                        pose == CamPoseLine(n, pos)
                        cam_T == Compose(SubSeq(pose, 1, 3),
                                         Quat2Mat(<<pose[7]>> \o SubSeq(pose, 4, 6)))
                    IN  /\ arrays[samples[i].img].path = FramePath(n, pos)
                        /\ samples[i].label =
                              Project3Dto2D(object_model, MatMul(InvRigid(cam_T), scene_tfs[n]))
    /\ ann_pc \in {"writing", "done"} =>
          /\ \A n \in DOMAIN disk.files : disk.files[n].writes = 1
          /\ Cardinality(DOMAIN disk.files) = 5 * counter
          /\ \A i \in 0..(counter - 1) :
                /\ FileName("frames", "frame_", i, ".jpg") \in DOMAIN disk.files
                /\ disk.files[FileName("frames", "frame_", i, ".jpg")].content.path
                      = arrays[samples[i + 1].img].path
                /\ FileName("label", "label_", i, ".txt") \in DOMAIN disk.files
                /\ disk.files[FileName("label", "label_", i, ".txt")].content
                      = samples[i + 1].label.keypts
    /\ ann_pc = "done" => counter = Len(samples)

\* All samples of a run over scenes with differing line counts, one of
\* which gives two samples, have been written.
C9_Witness ==
    /\ ann_pc = "done"
    /\ Len(samples) >= 3
    /\ \E n \in 1..num_scenes :
          /\ dataset[n].n_img # dataset[n].n_pose
          /\ Min2(dataset[n].n_img, dataset[n].n_pose) > 1
    /\ \E n \in 1..num_scenes : Min2(dataset[n].n_img, dataset[n].n_pose) > Ratio

\* C10: the visualize toggle does not change the output: the image of every
\* sample returned by generate_labels, and every frame written to disk, is
\* the resized frame as read, which is what a run without visualize yields.
C10_VisualizeLeavesOutput ==
    /\ \A i \in 1..Len(samples) :
          arrays[samples[i].img] = ReadResized(arrays[samples[i].img].path)
    /\ \A n \in DOMAIN disk.files :
          n[1] = "frames" => disk.files[n].content = ReadResized(disk.files[n].content.path)

====
